---- MODULE Spec2Model ----
(***************************************************************************)
(* Model of the intent-classification service of crew-das-closures:        *)
(* the HTTP facade (forceStatusOK, healthHandler, findServiceHandler,      *)
(* responseJSON), Core.AskQuestion with analyzeCoherence, the OpenRouter   *)
(* client's ChatCompletion and the PromptManager.                          *)
(*                                                                         *)
(* Go strings that the code inspects (intents, model names, service names, *)
(* response texts, prompts) are sequences of one-character strings, so     *)
(* that strings.TrimSpace, strings.Contains and strings.ToLower are        *)
(* computed.  Messages the code only passes along (diagnostics, error      *)
(* fragments) are atomic; an error text is the sequence of its fragments   *)
(* in the order fmt.Errorf concatenates them.  A Go pointer is a sequence  *)
(* of length 0 (nil) or 1.                                                 *)
(***************************************************************************)
EXTENDS Integers, Sequences, FiniteSets, TLC

VARIABLES
    pc,        \* position of the request being served
    req,       \* the inbound request: method, path, body
    sw,        \* the statusOKWriter of the request and the writer it wraps
    ask,       \* AskQuestion's locals across the outbound call
    resp,      \* pointer to the value the handler gave to responseJSON
    outCalls,  \* outbound chat-completion calls issued for the request
    core,      \* the Core built at start-up: PromptManager and model name
    call       \* a direct call of a pure operation: op, args, ret

vars == <<pc, req, sw, ask, resp, outCalls, core, call>>

(***************************************************************************)
(* Bounds of the model.                                                    *)
(***************************************************************************)
MaxPad == 1        \* whitespace characters on each side of an intent
MaxFrags == 3      \* fragments in a response text given to ValidatePromptResponse
MaxChoices == 2    \* choices in a provider envelope

(***************************************************************************)
(* Program constants.                                                      *)
(***************************************************************************)
StatusOK == 200
StatusNotFound == 404
StatusMethodNotAllowed == 405
MaxUint8 == 255

nil == <<>>
Ptr(v) == <<v>>
Deref(p) == p[1]

(***************************************************************************)
(* package strings                                                         *)
(***************************************************************************)
SpaceChars == {" ", "\t", "\n", "\r", "\f"}

UpperLetters == <<"A","B","C","D","E","F","G","H","I","J","K","L","M",
                  "N","O","P","Q","R","S","T","U","V","W","X","Y","Z">>
LowerLetters == <<"a","b","c","d","e","f","g","h","i","j","k","l","m",
                  "n","o","p","q","r","s","t","u","v","w","x","y","z">>

ToLowerChar(c) ==
    IF \E i \in 1..26 : UpperLetters[i] = c
    THEN LowerLetters[CHOOSE i \in 1..26 : UpperLetters[i] = c]
    ELSE c

ToLower(s) == [i \in 1..Len(s) |-> ToLowerChar(s[i])]

Contains(s, substr) ==
    \E i \in 0..(Len(s) - Len(substr)) :
        SubSeq(s, i + 1, i + Len(substr)) = substr

HasPrefix(s, prefix) ==
    /\ Len(s) >= Len(prefix)
    /\ SubSeq(s, 1, Len(prefix)) = prefix

RECURSIVE TrimLeft(_)
TrimLeft(s) ==
    IF s # <<>> /\ Head(s) \in SpaceChars THEN TrimLeft(Tail(s)) ELSE s

RECURSIVE TrimRight(_)
TrimRight(s) ==
    IF s # <<>> /\ s[Len(s)] \in SpaceChars
    THEN TrimRight(SubSeq(s, 1, Len(s) - 1))
    ELSE s

TrimSpace(s) == TrimRight(TrimLeft(s))

(***************************************************************************)
(* package prompt: PromptManager                                           *)
(***************************************************************************)
\* Stand-in for the fixed prompt text (its opening words); the code never
\* inspects it, it only concatenates it.
getDefaultSystemPromptContent ==
    <<"Y","o","u"," ","a","r","e"," ","a","n"," ","e","x","p","e","r","t">>

\* models.NewServiceRegistry(): the sixteen services by id and the
\* designated fallback (id 15, human attendant).
NewServiceRegistry == [services |-> 1..16, fallback |-> 15]

NewPromptManager ==
    [systemPrompt |-> getDefaultSystemPromptContent,
     serviceRegistry |-> NewServiceRegistry,
     fallbackService |-> NewServiceRegistry.fallback]

FallbackServiceIDs == {0, 9}

NewPromptManagerWithConfig(template, fallbackServiceID) ==
    LET registry == NewServiceRegistry
    IN  [systemPrompt |-> IF template = <<>>
                          THEN getDefaultSystemPromptContent
                          ELSE template,
         serviceRegistry |-> registry,
         fallbackService |-> IF fallbackServiceID \in registry.services
                             THEN fallbackServiceID
                             ELSE registry.fallback]

GetSystemPrompt(m) == m.systemPrompt

ErrEmptyIntent == <<"user intent cannot be empty">>

UserIntentLabel ==
    <<"\n","\n","U","s","e","r"," ","I","n","t","e","n","t",":"," ">>
ClassifyTrailer ==
    <<"\n","\n","P","l","e","a","s","e"," ","c","l","a","s","s","i",
      "f","y"," ","t","h","i","s"," ","i","n","t","e","n","t"," ","a",
      "n","d"," ","r","e","s","p","o","n","d"," ","w","i","t","h"," ",
      "t","h","e"," ","a","p","p","r","o","p","r","i","a","t","e"," ",
      "s","e","r","v","i","c","e"," ","i","n","f","o","r","m","a","t",
      "i","o","n"," ","i","n"," ","J","S","O","N"," ","f","o","r","m",
      "a","t",".">>
ReasoningTrailer ==
    <<"\n","\n","C","l","a","s","s","i","f","y"," ","t","h","i","s",
      " ","i","n","t","e","n","t"," ","a","n","d"," ","p","r","o","v",
      "i","d","e"," ","y","o","u","r"," ","r","e","a","s","o","n","i",
      "n","g"," ","a","n","d"," ","t","h","e"," ","f","i","n","a","l",
      " ","J","S","O","N",".">>
InstOpen == <<"<","s",">","[","I","N","S","T","]"," ">>
InstClose == <<" ","[","/","I","N","S","T","]">>
Mistral == <<"m","i","s","t","r","a","l">>

GenerateClassificationPrompt(m, userIntent) ==
    IF userIntent = <<>>
    THEN [prompt |-> <<>>, err |-> ErrEmptyIntent]
    ELSE [prompt |-> m.systemPrompt \o UserIntentLabel
                        \o TrimSpace(userIntent) \o ClassifyTrailer,
          err |-> nil]

\* Variant: the model family is matched without regard to letter case.
GenerateModelSpecificPrompt_AnyCase(m, userIntent, modelName) ==
    IF userIntent = <<>>
    THEN [prompt |-> <<>>, err |-> ErrEmptyIntent]
    ELSE IF Contains(ToLower(modelName), Mistral)
    THEN [prompt |-> InstOpen \o GetSystemPrompt(m) \o InstClose
                        \o UserIntentLabel \o TrimSpace(userIntent),
          err |-> nil]
    ELSE [prompt |-> GetSystemPrompt(m) \o UserIntentLabel
                        \o TrimSpace(userIntent) \o ReasoningTrailer,
          err |-> nil]

GenerateModelSpecificPrompt(m, userIntent, modelName) ==
    IF userIntent = <<>>
    THEN [prompt |-> <<>>, err |-> ErrEmptyIntent]
    ELSE IF Contains(modelName, Mistral)
    THEN [prompt |-> InstOpen \o GetSystemPrompt(m) \o InstClose
                        \o UserIntentLabel \o TrimSpace(userIntent),
          err |-> nil]
    ELSE [prompt |-> GetSystemPrompt(m) \o UserIntentLabel
                        \o TrimSpace(userIntent) \o ReasoningTrailer,
          err |-> nil]

QServiceID == <<"\"","s","e","r","v","i","c","e","_","i","d","\"">>
QServiceName == <<"\"","s","e","r","v","i","c","e","_","n","a","m","e","\"">>

ErrMissingServiceID == <<"response missing service_id field">>
ErrMissingServiceName == <<"response missing service_name field">>

\* Variant: the two fields are checked in the other order.
ValidatePromptResponse_NameFirst(response) ==
    IF ~Contains(response, QServiceName) THEN ErrMissingServiceName
    ELSE IF ~Contains(response, QServiceID) THEN ErrMissingServiceID
    ELSE nil

ValidatePromptResponse(response) ==
    IF ~Contains(response, QServiceID) THEN ErrMissingServiceID
    ELSE IF ~Contains(response, QServiceName) THEN ErrMissingServiceName
    ELSE nil

(***************************************************************************)
(* package core: analyzeCoherence                                          *)
(***************************************************************************)
DiagRequestNil == "request is nil"
DiagIntentEmpty == "request.intent is empty"
DiagDataNil == "response data is nil"
DiagServiceID == "response.service_id must be > 0"
DiagServiceName == "response.service_name is empty"
DiagMismatch ==
    "potential mismatch: intent may not relate to returned service name"

Segur == <<"s","e","g","u","r">>

\* Variant: the mismatch heuristic also runs for an empty intent.
analyzeCoherence_NoIntentGuard(request, data) ==
    IF request = nil THEN <<DiagRequestNil>>
    ELSE
      LET r == Deref(request)
          i1 == IF r.Intent = <<>> THEN <<DiagIntentEmpty>> ELSE <<>>
      IN  IF data = nil THEN Append(i1, DiagDataNil)
          ELSE
            LET d == Deref(data)
                i2 == IF d.ServiceID <= 0
                      THEN Append(i1, DiagServiceID) ELSE i1
                i3 == IF d.ServiceName = <<>>
                      THEN Append(i2, DiagServiceName) ELSE i2
            IN  IF /\ TRUE
                   /\ d.ServiceName # <<>>
                   /\ ~Contains(ToLower(r.Intent), Segur)
                   /\ Contains(ToLower(d.ServiceName), Segur)
                THEN Append(i3, DiagMismatch)
                ELSE i3

\* Variant: only a negative service_id is reported.
analyzeCoherence_NegativeOnly(request, data) ==
    IF request = nil THEN <<DiagRequestNil>>
    ELSE
      LET r == Deref(request)
          i1 == IF r.Intent = <<>> THEN <<DiagIntentEmpty>> ELSE <<>>
      IN  IF data = nil THEN Append(i1, DiagDataNil)
          ELSE
            LET d == Deref(data)
                i2 == IF d.ServiceID < 0
                      THEN Append(i1, DiagServiceID) ELSE i1
                i3 == IF d.ServiceName = <<>>
                      THEN Append(i2, DiagServiceName) ELSE i2
            IN  IF /\ r.Intent # <<>>
                   /\ d.ServiceName # <<>>
                   /\ ~Contains(ToLower(r.Intent), Segur)
                   /\ Contains(ToLower(d.ServiceName), Segur)
                THEN Append(i3, DiagMismatch)
                ELSE i3

\* Variant: the service name is searched as returned, without lowering.
analyzeCoherence_NameAsIs(request, data) ==
    IF request = nil THEN <<DiagRequestNil>>
    ELSE
      LET r == Deref(request)
          i1 == IF r.Intent = <<>> THEN <<DiagIntentEmpty>> ELSE <<>>
      IN  IF data = nil THEN Append(i1, DiagDataNil)
          ELSE
            LET d == Deref(data)
                i2 == IF d.ServiceID <= 0
                      THEN Append(i1, DiagServiceID) ELSE i1
                i3 == IF d.ServiceName = <<>>
                      THEN Append(i2, DiagServiceName) ELSE i2
            IN  IF /\ r.Intent # <<>>
                   /\ d.ServiceName # <<>>
                   /\ ~Contains(ToLower(r.Intent), Segur)
                   /\ Contains(d.ServiceName, Segur)
                THEN Append(i3, DiagMismatch)
                ELSE i3

\* Variant: the service name is checked before the service id.
analyzeCoherence_NameBeforeID(request, data) ==
    IF request = nil THEN <<DiagRequestNil>>
    ELSE
      LET r == Deref(request)
          i1 == IF r.Intent = <<>> THEN <<DiagIntentEmpty>> ELSE <<>>
      IN  IF data = nil THEN Append(i1, DiagDataNil)
          ELSE
            LET d == Deref(data)
                i2 == IF d.ServiceName = <<>>
                      THEN Append(i1, DiagServiceName) ELSE i1
                i3 == IF d.ServiceID <= 0
                      THEN Append(i2, DiagServiceID) ELSE i2
            IN  IF /\ r.Intent # <<>>
                   /\ d.ServiceName # <<>>
                   /\ ~Contains(ToLower(r.Intent), Segur)
                   /\ Contains(ToLower(d.ServiceName), Segur)
                THEN Append(i3, DiagMismatch)
                ELSE i3

analyzeCoherence(request, data) ==
    IF request = nil THEN <<DiagRequestNil>>
    ELSE
      LET r == Deref(request)
          i1 == IF r.Intent = <<>> THEN <<DiagIntentEmpty>> ELSE <<>>
      IN  IF data = nil THEN Append(i1, DiagDataNil)
          ELSE
            LET d == Deref(data)
                i2 == IF d.ServiceID <= 0
                      THEN Append(i1, DiagServiceID) ELSE i1
                i3 == IF d.ServiceName = <<>>
                      THEN Append(i2, DiagServiceName) ELSE i2
            IN  IF /\ r.Intent # <<>>
                   /\ d.ServiceName # <<>>
                   /\ ~Contains(ToLower(r.Intent), Segur)
                   /\ Contains(ToLower(d.ServiceName), Segur)
                THEN Append(i3, DiagMismatch)
                ELSE i3

(***************************************************************************)
(* Inputs: the strings the operations are exercised on.                    *)
(***************************************************************************)
WordCartao ==
    <<"q","u","e","r","o"," ","d","e","s","b","l","o","q","u","e","a",
      "r"," ","m","e","u"," ","c","a","r","t","a","o">>
WordSeguro ==
    <<"S","e","g","u","r","o">>
WordSegu ==
    <<"s","e","g","u"," ","r","o">>
NameDesbloqueio ==
    <<"D","e","s","b","l","o","q","u","e","i","o"," ","d","e"," ","C",
      "a","r","t","a","o">>
NameSeguradoras ==
    <<"T","e","l","e","f","o","n","e","s"," ","d","e"," ","s","e","g",
      "u","r","a","d","o","r","a","s">>
NameSeguroUpper ==
    <<"S","E","G","U","R","O">>
ModelGPT ==
    <<"o","p","e","n","a","i","/","g","p","t","-","4","o","-","m","i",
      "n","i">>
ModelMistral ==
    <<"m","i","s","t","r","a","l","a","i","/","m","i","s","t","r","a",
      "l","-","7","b">>
ModelMistralCap ==
    <<"M","i","s","t","r","a","l","-","7","B">>

PadChars == {" ", "\t"}
Pads == UNION {[1..n -> PadChars] : n \in 0..MaxPad}
IntentWords == {<<>>, <<"a">>, WordCartao, WordSeguro, WordSegu}
IntentInputs == {l \o w \o r : l \in Pads, w \in IntentWords, r \in Pads}
ModelNames == {<<>>, ModelGPT, ModelMistral, ModelMistralCap}
ServiceNames == {<<>>, <<"X">>, NameDesbloqueio, NameSeguradoras, NameSeguroUpper}
Templates == {<<>>, <<"c","f","g">>}

Fragments ==
    { QServiceID, QServiceName,
      <<"s","e","r","v","i","c","e","_","i","d">>,
      <<"\"","s","e","r","v","i","c","e","_">>,
      <<"{">>, <<":"," ","\"","x","\"",",">> }
RECURSIVE Concat(_)
Concat(ss) == IF ss = <<>> THEN <<>> ELSE Head(ss) \o Concat(Tail(ss))
ResponseTexts ==
    {Concat(fs) : fs \in UNION {[1..n -> Fragments] : n \in 0..MaxFrags}}

(***************************************************************************)
(* package service: the HTTP facade                                        *)
(***************************************************************************)
\* The http.ResponseWriter of the server: the status codes passed to its
\* WriteHeader, its Content-Type header and the bodies written to it.
NewResponseWriter == [codes |-> <<>>, contentType |-> "", body |-> <<>>]

\* forceStatusOK wraps the server's writer for each request.
NewStatusOKWriter(rw) == [ResponseWriter |-> rw, wroteHeader |-> FALSE]

\* Variant: the caller's status code reaches the wrapped writer.
WriteHeader_PassesCode(w, code) ==
    IF w.wroteHeader THEN w
    ELSE [w EXCEPT !.wroteHeader = TRUE,
                   !.ResponseWriter.codes = Append(@, code)]

\* Variant: every call reaches the wrapped writer.
WriteHeader_NoGuard(w, code) ==
    [w EXCEPT !.wroteHeader = TRUE,
              !.ResponseWriter.codes = Append(@, StatusOK)]

WriteHeader(w, code) ==
    IF w.wroteHeader THEN w
    ELSE [w EXCEPT !.wroteHeader = TRUE,
                   !.ResponseWriter.codes = Append(@, StatusOK)]

\* Header() and Write() are promoted from the embedded ResponseWriter; a
\* Write before any WriteHeader makes net/http send an implicit 200.
SetContentType(w, ct) == [w EXCEPT !.ResponseWriter.contentType = ct]

Write(w, b) ==
    [w EXCEPT !.ResponseWriter.body = Append(@, b),
              !.ResponseWriter.codes = IF @ = <<>> THEN <<StatusOK>> ELSE @]

EmptyObject == [f \in {} |-> f]

Field(name, present, value) ==
    IF present THEN name :> value ELSE EmptyObject

\* JSON object written for a model.FindServiceResponse: data, error and
\* diagnostics are optional on the wire.
EncodeFindServiceResponse(v) ==
    Field("success", TRUE, v.Success)
    @@ Field("data", v.Data # nil,
             IF v.Data # nil
             THEN [service_id |-> Deref(v.Data).ServiceID,
                   service_name |-> Deref(v.Data).ServiceName]
             ELSE EmptyObject)
    @@ Field("error", v.Error # <<>>, v.Error)
    @@ Field("diagnostics", v.Diagnostics # <<>>, v.Diagnostics)

EncodeHealthResponse(v) == Field("status", TRUE, v.Status)

Encode(v) ==
    IF "Status" \in DOMAIN v THEN EncodeHealthResponse(v)
    ELSE EncodeFindServiceResponse(v)

FallbackBody ==
    Field("success", TRUE, FALSE)
    @@ Field("error", TRUE, <<"internal server error">>)

\* Variant: nothing is written when the encoding fails.
responseJSON_NoFallback(w, statusCode, v, encodes) ==
    LET w1 == SetContentType(w, "application/json")
        w2 == WriteHeader(w1, statusCode)
    IN  IF encodes THEN Write(w2, Encode(v))
        ELSE SetContentType(w2, "application/json")

\* encodes: whether json.NewEncoder(w).Encode(v) succeeds.
responseJSON(w, statusCode, v, encodes) ==
    LET w1 == SetContentType(w, "application/json")
        w2 == WriteHeader(w1, statusCode)
    IN  IF encodes THEN Write(w2, Encode(v))
        ELSE Write(SetContentType(w2, "application/json"), FallbackBody)

HealthResponse == [Status |-> "ok"]

FindServiceResponse(success, data, error, diagnostics) ==
    [Success |-> success, Data |-> data, Error |-> error,
     Diagnostics |-> diagnostics]

\* Variant: the health status reports the classification client's state.
healthHandler_Degraded(w) ==
    responseJSON(w, StatusOK, [Status |-> "degraded"], TRUE)

healthHandler(w) == responseJSON(w, StatusOK, HealthResponse, TRUE)

ErrorResponse(prefix, err) ==
    FindServiceResponse(FALSE, nil, <<prefix>> \o err, <<>>)

InvalidRequestPrefix == "invalid request: "
InternalErrorPrefix == "internal server error: "

\* http.ServeMux with the two registered patterns: GET also matches HEAD;
\* a registered path under another method is 405, any other path 404.
Route(method, path) ==
    IF path = "/api/health"
    THEN IF method \in {"GET", "HEAD"} THEN "health" ELSE "405"
    ELSE IF path = "/api/find-service"
    THEN IF method = "POST" THEN "find-service" ELSE "405"
    ELSE "404"

\* http.Error, as the mux's own 404 and 405 handlers call it.
httpError(w, text, code) ==
    Write(WriteHeader(SetContentType(w, "text/plain; charset=utf-8"), code),
          Field("text", TRUE, text))

(***************************************************************************)
(* package core: Core.AskQuestion, and openrouter.Client.ChatCompletion    *)
(***************************************************************************)
NewCore(modelName) ==
    [PromptManager |-> NewPromptManager, modelName |-> modelName]

GetModelName(c) == c.modelName

\* Request bodies by the shape json.Unmarshal sees.
BodyKinds ==
    {"empty", "syntax", "null", "nonobject", "object-without-intent",
     "object-intent-number"}
PipelineIntents ==
    IntentWords \cup {p \o w : p \in Pads, w \in {<<>>, <<"a">>}}
RequestBodies ==
    {[kind |-> k, intent |-> <<>>] : k \in BodyKinds}
    \cup {[kind |-> "object", intent |-> i] : i \in PipelineIntents}

\* json.Unmarshal(question, obj) into a zero model.FindServiceRequest.
UnmarshalRequest(body) ==
    CASE body.kind = "empty" ->
            [err |-> <<"unexpected end of JSON input">>, Intent |-> <<>>]
      [] body.kind = "syntax" ->
            [err |-> <<"invalid character">>, Intent |-> <<>>]
      [] body.kind = "nonobject" ->
            [err |-> <<"json: cannot unmarshal into Go value">>,
             Intent |-> <<>>]
      [] body.kind = "object-intent-number" ->
            [err |-> <<"json: cannot unmarshal number into Go struct field">>,
             Intent |-> <<>>]
      [] body.kind \in {"null", "object-without-intent"} ->
            [err |-> nil, Intent |-> <<>>]
      [] body.kind = "object" ->
            [err |-> nil, Intent |-> body.intent]

\* Variant: the error of prompt rendering is dropped.
AskQuestionPrepare_IgnorePromptError(c, question) ==
    LET u == UnmarshalRequest(question)
        obj == [Intent |-> u.Intent]
        result == GenerateModelSpecificPrompt(c.PromptManager, obj.Intent,
                                              GetModelName(c))
    IN  IF u.err # nil
        THEN [err |-> u.err, obj |-> nil, oRequest |-> nil]
        ELSE [err |-> nil, obj |-> Ptr(obj),
              oRequest |-> Ptr([Model |-> GetModelName(c),
                                Messages |-> <<[Role |-> "user",
                                               Content |-> result.prompt]>>])]

\* AskQuestion up to the construction of oRequest.
AskQuestionPrepare(c, question) ==
    LET u == UnmarshalRequest(question)
        obj == [Intent |-> u.Intent]
        result == GenerateModelSpecificPrompt(c.PromptManager, obj.Intent,
                                              GetModelName(c))
    IN  IF u.err # nil
        THEN [err |-> u.err, obj |-> nil, oRequest |-> nil]
        ELSE IF result.err # nil
        THEN [err |-> result.err, obj |-> nil, oRequest |-> nil]
        ELSE [err |-> nil, obj |-> Ptr(obj),
              oRequest |-> Ptr([Model |-> GetModelName(c),
                                Messages |-> <<[Role |-> "user",
                                               Content |-> result.prompt]>>])]

\* ChatCompletion before c.Do: json.Marshal and http.NewRequest.
ChatCompletionBuild(construct) ==
    CASE construct = "marshal" -> <<"error marshaling request: ", "<err>">>
      [] construct = "newrequest" -> <<"failed to create request: ", "<err>">>
      [] construct = "ok" -> nil

\* What the provider's first-choice content is, as the inner json.Unmarshal
\* into DataResponse{uint8, string} sees it.
Content(kind, id, name) == [kind |-> kind, id |-> id, name |-> name]
Contents ==
    {Content("object", id, n) :
        id \in {0, 9},
        n \in {<<>>, NameDesbloqueio, NameSeguradoras}}
    \cup {Content("object", id, NameDesbloqueio) :
            id \in {-1, MaxUint8, MaxUint8 + 1}}
    \cup {Content("preamble", 9, NameDesbloqueio),
          Content("text", 0, <<>>)}

\* Variant: text before the JSON object is dropped before decoding.
UnmarshalContent_StripPreamble(c) ==
    IF c.kind \in {"object", "preamble"} /\ c.id \in 0..MaxUint8
    THEN [err |-> nil, ServiceID |-> c.id, ServiceName |-> c.name]
    ELSE [err |-> <<"<json error>">>, ServiceID |-> 0, ServiceName |-> <<>>]

\* Variant: the decode target holds any integer id.
UnmarshalContent_SignedID(c) ==
    IF c.kind = "object"
    THEN [err |-> nil, ServiceID |-> c.id, ServiceName |-> c.name]
    ELSE [err |-> <<"<json error>">>, ServiceID |-> 0, ServiceName |-> <<>>]

UnmarshalContent(c) ==
    IF c.kind = "object" /\ c.id \in 0..MaxUint8
    THEN [err |-> nil, ServiceID |-> c.id, ServiceName |-> c.name]
    ELSE [err |-> <<"<json error>">>, ServiceID |-> 0, ServiceName |-> <<>>]

\* What c.Do and the provider do with one outbound call.
Outcome(do, readOK, status, envelope, choices) ==
    [do |-> do, readOK |-> readOK, status |-> status,
     envelope |-> envelope, choices |-> choices]
ProviderStatuses == {StatusOK, 500}
ChoiceLists == UNION {[1..n -> Contents] : n \in 0..MaxChoices}
Outcomes ==
    {Outcome(d, TRUE, 0, "none", <<>>) : d \in {"network", "deadline"}}
    \cup {Outcome("ok", FALSE, s, "none", <<>>) : s \in ProviderStatuses}
    \cup {Outcome("ok", TRUE, s, "garbage", <<>>) : s \in ProviderStatuses}
    \cup {Outcome("ok", TRUE, s, "json", cs) :
            s \in ProviderStatuses, cs \in ChoiceLists}

\* The 10-second deadline of AskQuestion's context passed before the exchange
\* was over: c.Do gave the context's error, or the body read was cut short.
\* The context is never cancelled earlier: it derives from
\* context.Background() and cancel is deferred to AskQuestion's return.
DeadlineExceeded(o) ==
    \/ o.do = "deadline"
    \/ o.do = "ok" /\ ~o.readOK

\* string(body): the bytes the provider sent, by what they decode to.
Body(o) == [envelope |-> o.envelope, choices |-> o.choices]

\* Variant: the last choice is decoded instead of the first.
ChatCompletion_LastChoice(o) ==
    IF o.do # "ok"
    THEN [err |-> <<"failed to execute request: ", o.do>>, data |-> nil]
    ELSE IF ~o.readOK
    THEN [err |-> <<"error reading response: ", "<err>">>, data |-> nil]
    ELSE IF o.status # StatusOK
    THEN [err |-> <<"API request failed with status ", o.status, ": ",
                    Body(o)>>, data |-> nil]
    ELSE IF o.envelope # "json"
    THEN [err |-> <<"error unmarshaling response: ", "<err>", ". body: ",
                    Body(o)>>, data |-> nil]
    ELSE IF Len(o.choices) = 0
    THEN [err |-> <<"no choices in response">>, data |-> nil]
    ELSE LET d == UnmarshalContent(o.choices[Len(o.choices)])
         IN  IF d.err # nil
             THEN [err |-> <<"error unmarshaling data response: ">> \o d.err
                             \o <<". content: ", o.choices[Len(o.choices)]>>,
                   data |-> nil]
             ELSE [err |-> nil,
                   data |-> Ptr([ServiceID |-> d.ServiceID,
                                 ServiceName |-> d.ServiceName])]

\* Variant: the provider status is not checked before decoding.
ChatCompletion_NoStatusCheck(o) ==
    IF o.do # "ok"
    THEN [err |-> <<"failed to execute request: ", o.do>>, data |-> nil]
    ELSE IF ~o.readOK
    THEN [err |-> <<"error reading response: ", "<err>">>, data |-> nil]
    ELSE IF FALSE
    THEN [err |-> <<"API request failed with status ", o.status, ": ",
                    Body(o)>>, data |-> nil]
    ELSE IF o.envelope # "json"
    THEN [err |-> <<"error unmarshaling response: ", "<err>", ". body: ",
                    Body(o)>>, data |-> nil]
    ELSE IF Len(o.choices) = 0
    THEN [err |-> <<"no choices in response">>, data |-> nil]
    ELSE LET d == UnmarshalContent(o.choices[1])
         IN  IF d.err # nil
             THEN [err |-> <<"error unmarshaling data response: ">> \o d.err
                             \o <<". content: ", o.choices[1]>>,
                   data |-> nil]
             ELSE [err |-> nil,
                   data |-> Ptr([ServiceID |-> d.ServiceID,
                                 ServiceName |-> d.ServiceName])]

\* Variant: the envelope is decoded before the status is looked at.
ChatCompletion_EnvelopeFirst(o) ==
    IF o.do # "ok"
    THEN [err |-> <<"failed to execute request: ", o.do>>, data |-> nil]
    ELSE IF ~o.readOK
    THEN [err |-> <<"error reading response: ", "<err>">>, data |-> nil]
    ELSE IF o.envelope # "json"
    THEN [err |-> <<"error unmarshaling response: ", "<err>", ". body: ",
                    Body(o)>>, data |-> nil]
    ELSE IF o.status # StatusOK
    THEN [err |-> <<"API request failed with status ", o.status, ": ",
                    Body(o)>>, data |-> nil]
    ELSE IF Len(o.choices) = 0
    THEN [err |-> <<"no choices in response">>, data |-> nil]
    ELSE LET d == UnmarshalContent(o.choices[1])
         IN  IF d.err # nil
             THEN [err |-> <<"error unmarshaling data response: ">> \o d.err
                             \o <<". content: ", o.choices[1]>>,
                   data |-> nil]
             ELSE [err |-> nil,
                   data |-> Ptr([ServiceID |-> d.ServiceID,
                                 ServiceName |-> d.ServiceName])]

\* ChatCompletion from the return of c.Do on.
ChatCompletion(o) ==
    IF o.do # "ok"
    THEN [err |-> <<"failed to execute request: ", o.do>>, data |-> nil]
    ELSE IF ~o.readOK
    THEN [err |-> <<"error reading response: ", "<err>">>, data |-> nil]
    ELSE IF o.status # StatusOK
    THEN [err |-> <<"API request failed with status ", o.status, ": ",
                    Body(o)>>, data |-> nil]
    ELSE IF o.envelope # "json"
    THEN [err |-> <<"error unmarshaling response: ", "<err>", ". body: ",
                    Body(o)>>, data |-> nil]
    ELSE IF Len(o.choices) = 0
    THEN [err |-> <<"no choices in response">>, data |-> nil]
    ELSE LET d == UnmarshalContent(o.choices[1])
         IN  IF d.err # nil
             THEN [err |-> <<"error unmarshaling data response: ">> \o d.err
                             \o <<". content: ", o.choices[1]>>,
                   data |-> nil]
             ELSE [err |-> nil,
                   data |-> Ptr([ServiceID |-> d.ServiceID,
                                 ServiceName |-> d.ServiceName])]

\* Variant: Success is set without looking at the diagnostics.
AskQuestionFinish_AlwaysSuccess(obj, response, err) ==
    IF err # nil THEN [err |-> err, resp |-> nil]
    ELSE LET sData == Ptr([ServiceID |-> Deref(response).ServiceID,
                           ServiceName |-> Deref(response).ServiceName])
             diagnostics == analyzeCoherence(obj, sData)
         IN  [err |-> nil,
              resp |-> Ptr(FindServiceResponse(TRUE, sData, <<>>,
                                               diagnostics))]

\* Variant: a failed call is answered with the zero DataResponse.
AskQuestionFinish_DefaultOnError(obj, response, err) ==
    LET r == IF err # nil THEN [ServiceID |-> 0, ServiceName |-> <<>>]
             ELSE Deref(response)
        sData == Ptr([ServiceID |-> r.ServiceID,
                      ServiceName |-> r.ServiceName])
        diagnostics == analyzeCoherence(obj, sData)
    IN  [err |-> nil,
         resp |-> Ptr(FindServiceResponse(Len(diagnostics) = 0, sData,
                                          <<>>, diagnostics))]

\* AskQuestion from the return of ChatCompletion on.
AskQuestionFinish(obj, response, err) ==
    IF err # nil THEN [err |-> err, resp |-> nil]
    ELSE LET sData == Ptr([ServiceID |-> Deref(response).ServiceID,
                           ServiceName |-> Deref(response).ServiceName])
             diagnostics == analyzeCoherence(obj, sData)
         IN  [err |-> nil,
              resp |-> Ptr(FindServiceResponse(Len(diagnostics) = 0, sData,
                                               <<>>, diagnostics))]

\* findServiceHandler after AskQuestion returned (err, serviceResponse).
findServiceResult(a) ==
    IF a.err # nil THEN ErrorResponse(InternalErrorPrefix, a.err)
    ELSE Deref(a.resp)

(***************************************************************************)
(* The server: one request at a time through forceStatusOK(router).        *)
(***************************************************************************)
Methods == {"GET", "HEAD", "POST", "PUT"}
Paths == {"/api/health", "/api/find-service", "/"}
PipelineModels == {ModelGPT, ModelMistral}

NoRequest ==
    [method |-> "", path |-> "", body |-> [kind |-> "empty", intent |-> <<>>],
     readOK |-> TRUE]
NoAsk ==
    [obj |-> nil, oRequest |-> nil, build |-> "none", reply |-> nil,
     ret |-> nil]
NoCall == [op |-> "none", args |-> <<>>, ret |-> nil]

InitServer ==
    /\ pc = "idle"
    /\ req = NoRequest
    /\ sw = NewStatusOKWriter(NewResponseWriter)
    /\ ask = NoAsk
    /\ resp = nil
    /\ outCalls = 0

Init ==
    /\ InitServer
    /\ core \in {NewCore(m) : m \in PipelineModels}
    /\ call = NoCall

\* The server hands a request to forceStatusOK, which wraps the writer and
\* calls the router.
Accept(method, path, body, readOK) ==
    /\ pc = "idle"
    /\ req' = [method |-> method, path |-> path, body |-> body,
               readOK |-> readOK]
    /\ sw' = NewStatusOKWriter(NewResponseWriter)
    /\ pc' = "routed"
    /\ UNCHANGED <<ask, resp, outCalls, core, call>>

ServeHealth ==
    /\ pc = "routed"
    /\ Route(req.method, req.path) = "health"
    /\ sw' = healthHandler(sw)
    /\ resp' = Ptr(HealthResponse)
    /\ pc' = "done"
    /\ UNCHANGED <<req, ask, outCalls, core, call>>

ServeNotFound ==
    /\ pc = "routed"
    /\ Route(req.method, req.path) = "404"
    /\ sw' = httpError(sw, "404 page not found", StatusNotFound)
    /\ pc' = "done"
    /\ UNCHANGED <<req, ask, resp, outCalls, core, call>>

ServeMethodNotAllowed ==
    /\ pc = "routed"
    /\ Route(req.method, req.path) = "405"
    /\ sw' = httpError(sw, "Method Not Allowed", StatusMethodNotAllowed)
    /\ pc' = "done"
    /\ UNCHANGED <<req, ask, resp, outCalls, core, call>>

\* findServiceHandler until it either answers or blocks in c.Do.
FindServiceBegin(construct) ==
    /\ pc = "routed"
    /\ Route(req.method, req.path) = "find-service"
    /\ IF ~req.readOK
       THEN LET v == ErrorResponse(InvalidRequestPrefix, <<"<read error>">>)
            IN  /\ sw' = responseJSON(sw, StatusOK, v, TRUE)
                /\ resp' = Ptr(v)
                /\ pc' = "done"
                /\ UNCHANGED <<ask, outCalls>>
       ELSE LET p == AskQuestionPrepare(core, req.body)
                b == ChatCompletionBuild(construct)
                e == IF p.err # nil THEN p.err ELSE b
            IN  IF e # nil
                THEN LET a == [err |-> e, resp |-> nil]
                         v == findServiceResult(a)
                     IN  /\ ask' = [ask EXCEPT
                                      !.build = IF p.err # nil THEN "none"
                                                ELSE construct,
                                      !.ret = Ptr(a)]
                         /\ sw' = responseJSON(sw, StatusOK, v, TRUE)
                         /\ resp' = Ptr(v)
                         /\ pc' = "done"
                         /\ UNCHANGED outCalls
                ELSE /\ ask' = [ask EXCEPT !.obj = p.obj,
                                           !.oRequest = p.oRequest,
                                           !.build = construct]
                     /\ outCalls' = outCalls + 1
                     /\ pc' = "calling"
                     /\ UNCHANGED <<sw, resp>>
    /\ UNCHANGED <<req, core, call>>

\* Variant: a failed call is issued once more.
ChatCompletionReturn_Retry(o) ==
    /\ pc = "calling"
    /\ LET cc == ChatCompletion(o)
           a == AskQuestionFinish(ask.obj, cc.data, cc.err)
           v == findServiceResult(a)
       IN  IF cc.err # nil /\ outCalls < 2
           THEN /\ outCalls' = outCalls + 1
                /\ pc' = "calling"
                /\ UNCHANGED <<ask, sw, resp>>
           ELSE /\ ask' = [ask EXCEPT !.reply = Ptr(o), !.ret = Ptr(a)]
                /\ sw' = responseJSON(sw, StatusOK, v, TRUE)
                /\ resp' = Ptr(v)
                /\ pc' = "done"
                /\ UNCHANGED outCalls
    /\ UNCHANGED <<req, core, call>>

\* c.Do returns (or fails); ChatCompletion, AskQuestion and the handler
\* run to the end.
ChatCompletionReturn(o) ==
    /\ pc = "calling"
    /\ LET cc == ChatCompletion(o)
           a == AskQuestionFinish(ask.obj, cc.data, cc.err)
           v == findServiceResult(a)
       IN  /\ ask' = [ask EXCEPT !.reply = Ptr(o), !.ret = Ptr(a)]
           /\ sw' = responseJSON(sw, StatusOK, v, TRUE)
           /\ resp' = Ptr(v)
    /\ pc' = "done"
    /\ UNCHANGED <<req, outCalls, core, call>>

\* The handler has returned; the server takes the next request.
Close ==
    /\ pc = "done"
    /\ pc' = "idle"
    /\ req' = NoRequest
    /\ sw' = NewStatusOKWriter(NewResponseWriter)
    /\ ask' = NoAsk
    /\ resp' = nil
    /\ outCalls' = 0
    /\ UNCHANGED <<core, call>>

Next ==
    \/ \E m \in Methods, p \in Paths, b \in RequestBodies, r \in BOOLEAN :
          Accept(m, p, b, r)
    \/ ServeHealth
    \/ ServeNotFound
    \/ ServeMethodNotAllowed
    \/ \E c \in {"ok", "marshal", "newrequest"} : FindServiceBegin(c)
    \/ \E o \in Outcomes : ChatCompletionReturn(o)
    \/ Close

Spec == Init /\ [][Next]_vars

(***************************************************************************)
(* Direct calls of the PromptManager's operations.                         *)
(***************************************************************************)
InitPrompt ==
    /\ InitServer
    /\ core \in {[PromptManager |-> NewPromptManagerWithConfig(t, f),
                  modelName |-> <<>>] :
                    t \in Templates, f \in FallbackServiceIDs}
    /\ call \in {[op |-> "pending",
                  args |-> [intent |-> i, modelName |-> m],
                  ret |-> nil] : i \in IntentInputs, m \in ModelNames}

CallGenerateClassificationPrompt ==
    /\ call.op = "pending"
    /\ call' = [call EXCEPT
                  !.op = "GenerateClassificationPrompt",
                  !.ret = Ptr(GenerateClassificationPrompt(
                                core.PromptManager, call.args.intent))]
    /\ UNCHANGED <<pc, req, sw, ask, resp, outCalls, core>>

CallGenerateModelSpecificPrompt ==
    /\ call.op = "pending"
    /\ call' = [call EXCEPT
                  !.op = "GenerateModelSpecificPrompt",
                  !.ret = Ptr(GenerateModelSpecificPrompt(
                                core.PromptManager, call.args.intent,
                                call.args.modelName))]
    /\ UNCHANGED <<pc, req, sw, ask, resp, outCalls, core>>

NextPrompt ==
    \/ CallGenerateClassificationPrompt
    \/ CallGenerateModelSpecificPrompt

SpecPrompt == InitPrompt /\ [][NextPrompt]_vars

InitValidate ==
    /\ InitServer
    /\ core = NewCore(ModelGPT)
    /\ call \in {[op |-> "pending", args |-> [response |-> t],
                  ret |-> nil] : t \in ResponseTexts}

CallValidatePromptResponse ==
    /\ call.op = "pending"
    /\ call' = [call EXCEPT
                  !.op = "ValidatePromptResponse",
                  !.ret = Ptr(ValidatePromptResponse(call.args.response))]
    /\ UNCHANGED <<pc, req, sw, ask, resp, outCalls, core>>

NextValidate == CallValidatePromptResponse

SpecValidate == InitValidate /\ [][NextValidate]_vars

(***************************************************************************)
(* Direct calls of analyzeCoherence.                                       *)
(***************************************************************************)
CoherenceRequests == {nil} \cup {Ptr([Intent |-> i]) : i \in IntentInputs}
CoherenceData ==
    {nil} \cup {Ptr([ServiceID |-> id, ServiceName |-> n]) :
                    id \in {0, 1, 9, MaxUint8}, n \in ServiceNames}

InitCoherence ==
    /\ InitServer
    /\ core = NewCore(ModelGPT)
    /\ call \in {[op |-> "pending", args |-> [request |-> r, data |-> d],
                  ret |-> nil] : r \in CoherenceRequests, d \in CoherenceData}

CallAnalyzeCoherence ==
    /\ call.op = "pending"
    /\ call' = [call EXCEPT
                  !.op = "analyzeCoherence",
                  !.ret = Ptr(analyzeCoherence(call.args.request,
                                               call.args.data))]
    /\ UNCHANGED <<pc, req, sw, ask, resp, outCalls, core>>

NextCoherence == CallAnalyzeCoherence

SpecCoherence == InitCoherence /\ [][NextCoherence]_vars

(***************************************************************************)
(* Properties of the HTTP facade and the pipeline (Spec).                  *)
(***************************************************************************)
Served(route) == pc = "done" /\ Route(req.method, req.path) = route
Codes == sw.ResponseWriter.codes
Bodies == sw.ResponseWriter.body
\* The single JSON object a finished handler has written.
Wire == Bodies[1]

\* C1: every status code the wrapped (underlying) response writer receives,
\* for any method, any path and any handler, is 200.
C1_OnlyStatusOK == \A i \in 1..Len(Codes) : Codes[i] = StatusOK

\* A request the mux does not match has been answered: its handler called
\* WriteHeader(404) and the wrapped writer saw 200.
C1_Witness == Served("404") /\ Codes = <<StatusOK>>

NoPipelineError ==
    req.readOK /\ ask.ret # nil /\ Deref(ask.ret).err = nil

C3_SuccessIffClean ==
    Served("find-service") =>
        LET v == Deref(resp)
        IN  /\ v.Success <=> (NoPipelineError /\ v.Diagnostics = <<>>)
            /\ v.Success =>
                 (v.Error = <<>> /\ v.Diagnostics = <<>> /\ v.Data # nil)

\* No error occurred but a diagnostic was raised: success is false.
C3_Witness ==
    /\ Served("find-service")
    /\ NoPipelineError
    /\ Deref(resp).Diagnostics # <<>>
    /\ ~Deref(resp).Success

\* The condition of the mismatch heuristic, stated on the two strings.
StemMismatch(intent, name) ==
    /\ ~Contains(ToLower(intent), Segur)
    /\ Contains(ToLower(name), Segur)

ProviderAnswered200 ==
    /\ Served("find-service")
    /\ req.readOK
    /\ req.body.kind = "object"
    /\ req.body.intent # <<>>
    /\ ask.reply # nil
    /\ Deref(ask.reply).do = "ok"
    /\ Deref(ask.reply).readOK
    /\ Deref(ask.reply).status = StatusOK
    /\ Deref(ask.reply).envelope = "json"

GoodContent(c) ==
    /\ c.kind = "object"
    /\ c.id > 0
    /\ c.name # <<>>
    /\ ~StemMismatch(req.body.intent, c.name)

SuccessWith(c) ==
    /\ Codes = <<StatusOK>>
    /\ Deref(resp) = FindServiceResponse(
                        TRUE, Ptr([ServiceID |-> c.id, ServiceName |-> c.name]),
                        <<>>, <<>>)
    /\ Bodies = <<Field("success", TRUE, TRUE)
                  @@ Field("data", TRUE, [service_id |-> c.id,
                                          service_name |-> c.name])>>

\* C4 as stated: a 200 reply with at least one choice whose content is a
\* bare object with service_id > 0, a non-empty name and no stem mismatch
\* yields success=true with exactly that pair and no other field.
C4_AnyGoodChoiceSucceeds ==
    LET cs == Deref(ask.reply).choices
    IN  (ProviderAnswered200 /\ \E i \in 1..Len(cs) : GoodContent(cs[i]))
          => \E i \in 1..Len(cs) : GoodContent(cs[i]) /\ SuccessWith(cs[i])

\* C4 amended: when the FIRST choice's content is such an object and its
\* service_id is in 1..255, the response is status 200, success=true, data
\* exactly that pair, and neither an error nor a diagnostics field.
C4_FirstGoodChoiceSucceeds ==
    LET cs == Deref(ask.reply).choices
    IN  (/\ ProviderAnswered200
         /\ Len(cs) > 0
         /\ GoodContent(cs[1])
         /\ cs[1].id <= MaxUint8)
          => SuccessWith(cs[1])

\* The documented end-to-end case: intent "quero desbloquear meu cartao",
\* the provider answers {9, "Desbloqueio de Cartao"}.
C4_Witness ==
    /\ ProviderAnswered200
    /\ req.body.intent = WordCartao
    /\ Deref(ask.reply).choices = <<Content("object", 9, NameDesbloqueio)>>
    /\ DOMAIN Wire = {"success", "data"}

UndecodableBody ==
    req.body.kind \in {"empty", "syntax", "nonobject", "object-intent-number"}

\* C5: an empty body, or one that does not decode as the intent payload,
\* yields status 200, success=false and an error that begins with
\* "invalid request: ".
C5_UndecodableIsInvalidRequest ==
    (Served("find-service") /\ req.readOK /\ UndecodableBody) =>
        /\ Codes = <<StatusOK>>
        /\ Deref(resp).Success = FALSE
        /\ Deref(resp).Error # <<>>
        /\ Head(Deref(resp).Error) = InvalidRequestPrefix

\* A step of the classification pipeline failed, told from the inputs: the
\* decoded intent, the construction of the outbound request, what c.Do and
\* the provider did.
ReplyFailed(o) ==
    \/ o.do # "ok"
    \/ ~o.readOK
    \/ o.status # StatusOK
    \/ o.envelope # "json"
    \/ Len(o.choices) = 0
    \/ o.choices[1].kind # "object"
    \/ o.choices[1].id \notin 0..MaxUint8

PipelineStepFailed ==
    /\ Served("find-service")
    /\ req.readOK
    /\ req.body.kind \in {"null", "object-without-intent", "object"}
    /\ \/ req.body.intent = <<>>
       \/ ask.build \in {"marshal", "newrequest"}
       \/ ask.reply # nil /\ ReplyFailed(Deref(ask.reply))

\* C6: when a pipeline step fails the response is status 200, success=false,
\* an error beginning with "internal server error: ", and neither data nor
\* diagnostics; and no find-service response carries both error and data.
C6_FailureIsErrorEnvelope ==
    /\ PipelineStepFailed =>
         /\ Codes = <<StatusOK>>
         /\ Len(Bodies) = 1
         /\ Deref(resp).Success = FALSE
         /\ Deref(resp).Error # <<>>
         /\ Head(Deref(resp).Error) = InternalErrorPrefix
         /\ Deref(resp).Data = nil
         /\ Deref(resp).Diagnostics = <<>>
    /\ Served("find-service") =>
         ~(Deref(resp).Error # <<>> /\ Deref(resp).Data # nil)

\* A non-200 provider reply whose body is a well-formed envelope with a
\* decodable first choice was turned into the error envelope.
C6_Witness ==
    /\ PipelineStepFailed
    /\ ask.reply # nil
    /\ Deref(ask.reply).status = 500
    /\ Deref(ask.reply).choices = <<Content("object", 9, NameDesbloqueio)>>
    /\ Head(Deref(resp).Error) = InternalErrorPrefix

(***************************************************************************)
(* Properties of the PromptManager (SpecPrompt, SpecValidate).             *)
(***************************************************************************)
PromptCalled ==
    call.op \in {"GenerateClassificationPrompt", "GenerateModelSpecificPrompt"}

\* C7: for an intent that is empty or only whitespace, both prompt
\* generators fail with the empty-intent error and return no prompt.
C7_BlankIntentRejected ==
    (PromptCalled /\ TrimSpace(call.args.intent) = <<>>) =>
        /\ Deref(call.ret).err = ErrEmptyIntent
        /\ Deref(call.ret).prompt = <<>>

\* C8: for a non-empty intent the generators succeed and the prompt contains
\* the trimmed intent; GenerateModelSpecificPrompt starts with
\* "<s>[INST] " + systemPrompt + " [/INST]" when the model name contains
\* "mistral" and with the system prompt itself otherwise, and
\* GenerateClassificationPrompt always starts with the system prompt.
C8_PromptEmbedsIntentAndSystemPrompt ==
    (PromptCalled /\ call.args.intent # <<>>) =>
        LET r == Deref(call.ret)
            sys == core.PromptManager.systemPrompt
            wrapped == /\ call.op = "GenerateModelSpecificPrompt"
                       /\ Contains(call.args.modelName, Mistral)
        IN  /\ r.err = nil
            /\ Contains(r.prompt, TrimSpace(call.args.intent))
            /\ Contains(r.prompt, sys)
            /\ IF wrapped
               THEN HasPrefix(r.prompt, InstOpen \o sys \o InstClose)
               ELSE HasPrefix(r.prompt, sys)

\* A padded intent was rendered for a model whose name has "Mistral" with a
\* capital letter only: the default format was used.
C8_Witness ==
    /\ call.op = "GenerateModelSpecificPrompt"
    /\ call.args.modelName = ModelMistralCap
    /\ call.args.intent = <<" ">> \o WordCartao \o <<"\t">>
    /\ Deref(call.ret).err = nil

\* C9: ValidatePromptResponse returns nil iff the text contains both
\* "service_id" and "service_name" in double quotes; when both are absent
\* the error is the missing-service_id one.
C9_ValidateIffBothPresent ==
    call.op = "ValidatePromptResponse" =>
        LET t == call.args.response
            r == Deref(call.ret)
        IN  /\ r = nil <=> (Contains(t, QServiceID) /\ Contains(t, QServiceName))
            /\ (~Contains(t, QServiceID) /\ ~Contains(t, QServiceName))
                 => r = ErrMissingServiceID

\* A text that is not well-formed JSON but has both substrings passed.
C9_Witness ==
    /\ call.op = "ValidatePromptResponse"
    /\ call.args.response = <<"{">> \o QServiceName \o QServiceID
    /\ Deref(call.ret) = nil

(***************************************************************************)
(* Properties of analyzeCoherence (SpecCoherence).                         *)
(***************************************************************************)
\* C10: for a non-nil request with an empty intent and non-nil data with
\* service_id > 0 and a non-empty service_name, analyzeCoherence returns
\* exactly <<"request.intent is empty">>.
C10_EmptyIntentOnly ==
    (/\ call.op = "analyzeCoherence"
     /\ call.args.request # nil
     /\ Deref(call.args.request).Intent = <<>>
     /\ call.args.data # nil
     /\ Deref(call.args.data).ServiceID > 0
     /\ Deref(call.args.data).ServiceName # <<>>)
        => Deref(call.ret) = <<DiagIntentEmpty>>

\* The case with an insurance service name: no mismatch entry is added.
C10_Witness ==
    /\ call.op = "analyzeCoherence"
    /\ call.args.request = Ptr([Intent |-> <<>>])
    /\ call.args.data = Ptr([ServiceID |-> 1, ServiceName |-> NameSeguradoras])
    /\ Deref(call.ret) = <<DiagIntentEmpty>>


CoherenceCalled(request, data) ==
    /\ call.op = "analyzeCoherence"
    /\ call.args.request = request
    /\ call.args.data = data

BothGiven ==
    /\ call.op = "analyzeCoherence"
    /\ call.args.request # nil
    /\ call.args.data # nil

Reported(diag) ==
    \E i \in 1..Len(Deref(call.ret)) : Deref(call.ret)[i] = diag

\* C11: for a non-nil request and non-nil data, the result includes
\* "response.service_id must be > 0" iff data.service_id <= 0, whatever the
\* intent and the service_name are.
C11_ServiceIDReportedIffNotPositive ==
    BothGiven =>
        (Reported(DiagServiceID) <=> Deref(call.args.data).ServiceID <= 0)

\* service_id 0 with an insurance name and an unrelated intent.
C11_Witness ==
    /\ CoherenceCalled(Ptr([Intent |-> WordCartao]),
                       Ptr([ServiceID |-> 0, ServiceName |-> NameSeguradoras]))
    /\ Reported(DiagServiceID)

\* C12 as stated: for a non-nil request and non-nil data the mismatch
\* diagnostic is emitted iff the intent does not contain "segur" and the
\* service_name does, letter case aside.
C12_MismatchIffStem ==
    BothGiven =>
        (Reported(DiagMismatch) <=>
            StemMismatch(Deref(call.args.request).Intent,
                         Deref(call.args.data).ServiceName))

\* C12 amended: the mismatch diagnostic is emitted iff the intent is
\* NON-EMPTY, does not contain "segur" and the service_name does.
C12_MismatchIffStemAndIntent ==
    BothGiven =>
        (Reported(DiagMismatch) <=>
            /\ Deref(call.args.request).Intent # <<>>
            /\ StemMismatch(Deref(call.args.request).Intent,
                            Deref(call.args.data).ServiceName))

\* An intent without the stem and an upper-case insurance name.
C12_Witness ==
    /\ CoherenceCalled(Ptr([Intent |-> WordCartao]),
                       Ptr([ServiceID |-> 9, ServiceName |-> NameSeguroUpper]))
    /\ Deref(call.ret) = <<DiagMismatch>>

\* The diagnostics in their fixed order, each with the condition under
\* which it is due when request and data are both given.
DiagOrder ==
    <<DiagIntentEmpty, DiagServiceID, DiagServiceName, DiagMismatch>>

Due(diag) ==
    LET r == Deref(call.args.request)
        d == Deref(call.args.data)
    IN  CASE diag = DiagIntentEmpty -> r.Intent = <<>>
          [] diag = DiagServiceID -> d.ServiceID <= 0
          [] diag = DiagServiceName -> d.ServiceName = <<>>
          [] diag = DiagMismatch ->
                r.Intent # <<>> /\ StemMismatch(r.Intent, d.ServiceName)

\* C14: a nil request yields exactly <<"request is nil">>; nil data yields
\* "response data is nil", preceded by "request.intent is empty" iff the
\* intent is empty; otherwise every due diagnostic is present, once, in the
\* order intent, service_id, service_name, mismatch.
C14_FixedOrderStopOnNilOnly ==
    call.op = "analyzeCoherence" =>
        IF call.args.request = nil
        THEN Deref(call.ret) = <<DiagRequestNil>>
        ELSE IF call.args.data = nil
        THEN Deref(call.ret) =
                (IF Deref(call.args.request).Intent = <<>>
                 THEN <<DiagIntentEmpty>> ELSE <<>>) \o <<DiagDataNil>>
        ELSE Deref(call.ret) = SelectSeq(DiagOrder, Due)

\* Three checks fail in one call and all three are reported, in order.
C14_Witness ==
    /\ CoherenceCalled(Ptr([Intent |-> <<>>]),
                       Ptr([ServiceID |-> 0, ServiceName |-> <<>>]))
    /\ Deref(call.ret) = <<DiagIntentEmpty, DiagServiceID, DiagServiceName>>


(***************************************************************************)
(* Direct calls of responseJSON on a statusOKWriter.                       *)
(***************************************************************************)
\* A value encoding/json refuses (a channel, a func, a NaN).
Unencodable == [Unencodable |-> TRUE]
Encodable(v) == "Unencodable" \notin DOMAIN v

StatusCodes == {StatusOK, 201, 400, StatusNotFound, 500, 503}
ResponseValues ==
    {HealthResponse, Unencodable,
     ErrorResponse(InvalidRequestPrefix, <<"unexpected EOF">>),
     ErrorResponse(InternalErrorPrefix, <<"no choices in response">>)}
    \cup {FindServiceResponse(Len(ds) = 0, Ptr(d), <<>>, ds) :
            d \in {[ServiceID |-> 9, ServiceName |-> NameDesbloqueio],
                   [ServiceID |-> 8, ServiceName |-> NameSeguradoras],
                   [ServiceID |-> 0, ServiceName |-> <<>>]},
            ds \in {<<>>, <<DiagServiceID>>}}

InitResponse ==
    /\ InitServer
    /\ core = NewCore(ModelGPT)
    /\ call \in {[op |-> "pending", args |-> [statusCode |-> c, v |-> v],
                  ret |-> nil] : c \in StatusCodes, v \in ResponseValues}

CallResponseJSON ==
    /\ call.op = "pending"
    /\ sw' = responseJSON(sw, call.args.statusCode, call.args.v,
                          Encodable(call.args.v))
    /\ call' = [call EXCEPT !.op = "responseJSON"]
    /\ UNCHANGED <<pc, req, ask, resp, outCalls, core>>

NextResponse == CallResponseJSON

SpecResponse == InitResponse /\ [][NextResponse]_vars

\* C13: when the value cannot be encoded, responseJSON still sends status
\* 200, whatever its statusCode argument, and writes exactly the body
\* {"success":false,"error":"internal server error"} as application/json.
C13_EncodeFailureFallback ==
    (call.op = "responseJSON" /\ ~Encodable(call.args.v)) =>
        /\ Codes = <<StatusOK>>
        /\ Bodies = <<("success" :> FALSE)
                      @@ ("error" :> <<"internal server error">>)>>
        /\ sw.ResponseWriter.contentType = "application/json"

\* The encoding failed in a call that asked for status 500.
C13_Witness ==
    /\ call.op = "responseJSON"
    /\ call.args.statusCode = 500
    /\ call.args.v = Unencodable
    /\ Len(Bodies) = 1


(***************************************************************************)
(* Direct calls of Client.ChatCompletion.                                  *)
(***************************************************************************)
Constructs == {"ok", "marshal", "newrequest"}

InitChat ==
    /\ InitServer
    /\ core = NewCore(ModelGPT)
    /\ call \in {[op |-> "pending", args |-> [construct |-> c, o |-> o],
                  ret |-> nil] : c \in Constructs, o \in Outcomes}

CallChatCompletion ==
    /\ call.op = "pending"
    /\ LET b == ChatCompletionBuild(call.args.construct)
       IN  call' = [call EXCEPT
                      !.op = "ChatCompletion",
                      !.ret = Ptr(IF b # nil THEN [err |-> b, data |-> nil]
                                  ELSE ChatCompletion(call.args.o))]
    /\ UNCHANGED <<pc, req, sw, ask, resp, outCalls, core>>

NextChat == CallChatCompletion

SpecChat == InitChat /\ [][NextChat]_vars

\* The HTTP call of the outcome completed: the request was built, c.Do
\* returned a response and its body was read.
CallCompleted ==
    /\ call.args.construct = "ok"
    /\ call.args.o.do = "ok"
    /\ call.args.o.readOK

FirstChoiceDecodes ==
    /\ call.args.o.envelope = "json"
    /\ Len(call.args.o.choices) >= 1
    /\ call.args.o.choices[1].kind = "object"
    /\ call.args.o.choices[1].id \in 0..MaxUint8

\* C15: ChatCompletion returns data iff the call completed with status 200,
\* a decodable envelope, at least one choice and a decodable first choice,
\* and then the data is the first choice's pair; otherwise it returns an
\* error and nil data.  A completed non-200 call fails with the status error
\* that carries the status and the body, whatever the body decodes to.
C15_DataIffFirstChoiceDecodes ==
    call.op = "ChatCompletion" =>
        LET r == Deref(call.ret)
            o == call.args.o
        IN  /\ r.data # nil <=>
                 (CallCompleted /\ o.status = StatusOK /\ FirstChoiceDecodes)
            /\ r.err = nil <=> r.data # nil
            /\ r.data # nil =>
                 r.data = Ptr([ServiceID |-> o.choices[1].id,
                               ServiceName |-> o.choices[1].name])
            /\ (CallCompleted /\ o.status # StatusOK) =>
                 /\ Len(r.err) = 4
                 /\ r.err[1] = "API request failed with status "
                 /\ r.err[2] = o.status
                 /\ r.err[4] = [envelope |-> o.envelope, choices |-> o.choices]

\* A 500 reply whose body is a valid envelope with a decodable first choice.
C15_Witness ==
    /\ call.op = "ChatCompletion"
    /\ CallCompleted
    /\ call.args.o.status = 500
    /\ call.args.o.choices = <<Content("object", 9, NameDesbloqueio)>>
    /\ Deref(call.ret).data = nil


\* The provider answered 200 with an envelope whose first choice has text
\* before its JSON object.
PreambleReply ==
    /\ ProviderAnswered200
    /\ Len(Deref(ask.reply).choices) >= 1
    /\ Deref(ask.reply).choices[1].kind = "preamble"

\* C16: a first-choice content with text before the JSON object is decoded
\* as it is: the inner decode fails and the find-service response is
\* success=false, an error beginning with "internal server error: " that
\* reports the inner decode, and no data.
C16_PreambleIsInternalError ==
    PreambleReply =>
        /\ Deref(ask.ret).err # nil
        /\ Deref(resp).Success = FALSE
        /\ Head(Deref(resp).Error) = InternalErrorPrefix
        /\ Deref(resp).Error[2] = "error unmarshaling data response: "
        /\ Deref(resp).Data = nil
        /\ Len(Bodies) = 1

\* The object after the preamble names service 9, and the answer is still
\* the error envelope.
C16_Witness ==
    /\ PreambleReply
    /\ Deref(ask.reply).choices = <<Content("preamble", 9, NameDesbloqueio)>>
    /\ Deref(resp).Success = FALSE


\* C17: when the outbound call runs into the deadline, AskQuestion returns
\* an error and the request is answered with exactly one body, the error
\* envelope: status 200, success=false, an "internal server error: " error,
\* no data and no diagnostics.
C17_TimeoutIsErrorEnvelope ==
    (pc = "done" /\ ask.reply # nil /\ DeadlineExceeded(Deref(ask.reply))) =>
        /\ Deref(ask.ret).err # nil
        /\ Deref(ask.ret).resp = nil
        /\ Codes = <<StatusOK>>
        /\ Len(Bodies) = 1
        /\ Deref(resp).Success = FALSE
        /\ Head(Deref(resp).Error) = InternalErrorPrefix
        /\ Deref(resp).Data = nil
        /\ Deref(resp).Diagnostics = <<>>

\* c.Do gave up on the deadline and the error envelope went out.
C17_Witness ==
    /\ pc = "done"
    /\ ask.reply # nil
    /\ Deref(ask.reply).do = "deadline"
    /\ Deref(resp).Error =
         <<InternalErrorPrefix, "failed to execute request: ", "deadline">>


\* C18: a request issues at most one outbound call; none when the body does
\* not decode or the intent is rejected by prompt rendering; the call is
\* issued with the rendered prompt in hand, and while it is outstanding
\* nothing has been answered and no coherence result exists; a response
\* with data or diagnostics comes only after the call has returned.
C18_AtMostOneOutboundCall ==
    /\ outCalls \in {0, 1}
    /\ Served("find-service") =>
         /\ (~req.readOK \/ UndecodableBody \/ req.body.intent = <<>>) =>
              outCalls = 0 /\ ask.reply = nil
         /\ ask.reply # nil => outCalls = 1
         /\ (Deref(resp).Data # nil \/ Deref(resp).Diagnostics # <<>>) =>
              ask.reply # nil
    /\ outCalls = 1 =>
         /\ ask.oRequest # nil
         /\ Deref(ask.oRequest).Messages[1].Content =
              GenerateModelSpecificPrompt(core.PromptManager,
                                          req.body.intent,
                                          GetModelName(core)).prompt
    /\ pc = "calling" =>
         /\ outCalls = 1
         /\ ask.ret = nil
         /\ resp = nil
         /\ Bodies = <<>>

\* The one call failed and the request ended with that single call.
C18_Witness ==
    /\ Served("find-service")
    /\ outCalls = 1
    /\ ask.reply # nil
    /\ Deref(ask.reply).do = "network"
    /\ Deref(ask.ret).err # nil


(***************************************************************************)
(* Concurrent requests: net/http runs every handler in its own goroutine.  *)
(* Each goroutine owns its request, its statusOKWriter and the locals of   *)
(* findServiceHandler and AskQuestion; the Core is the one value they all  *)
(* hold.  pc, req, sw, ask, resp and outCalls are here functions of the    *)
(* goroutine.                                                              *)
(***************************************************************************)
NumSlots == 2
Slots == 1..NumSlots

ConcRequests ==
    {[method |-> "GET", path |-> "/api/health",
      body |-> [kind |-> "empty", intent |-> <<>>], readOK |-> TRUE]}
    \cup {[method |-> "POST", path |-> "/api/find-service", body |-> b,
           readOK |-> TRUE] :
            b \in {[kind |-> "syntax", intent |-> <<>>],
                   [kind |-> "object", intent |-> WordCartao],
                   [kind |-> "object", intent |-> WordSeguro]}}

ConcOutcomes ==
    {Outcome("deadline", TRUE, 0, "none", <<>>),
     Outcome("ok", TRUE, 500, "garbage", <<>>),
     Outcome("ok", TRUE, StatusOK, "json",
             <<Content("object", 9, NameDesbloqueio)>>),
     Outcome("ok", TRUE, StatusOK, "json",
             <<Content("object", 9, NameSeguradoras)>>)}

InitConc ==
    /\ pc = [i \in Slots |-> "idle"]
    /\ req = [i \in Slots |-> NoRequest]
    /\ sw = [i \in Slots |-> NewStatusOKWriter(NewResponseWriter)]
    /\ ask = [i \in Slots |-> NoAsk]
    /\ resp = [i \in Slots |-> nil]
    /\ outCalls = [i \in Slots |-> 0]
    /\ core \in {NewCore(m) : m \in PipelineModels}
    /\ call = NoCall

ConcAccept(i, r) ==
    /\ pc[i] = "idle"
    /\ req' = [req EXCEPT ![i] = r]
    /\ sw' = [sw EXCEPT ![i] = NewStatusOKWriter(NewResponseWriter)]
    /\ pc' = [pc EXCEPT ![i] = "routed"]
    /\ UNCHANGED <<ask, resp, outCalls, core, call>>

ConcServeHealth(i) ==
    /\ pc[i] = "routed"
    /\ Route(req[i].method, req[i].path) = "health"
    /\ sw' = [sw EXCEPT ![i] = healthHandler(sw[i])]
    /\ resp' = [resp EXCEPT ![i] = Ptr(HealthResponse)]
    /\ pc' = [pc EXCEPT ![i] = "done"]
    /\ UNCHANGED <<req, ask, outCalls, core, call>>

\* Variant: the rendered prompt is kept in the shared PromptManager.
ConcFindServiceBegin_SharedPrompt(i) ==
    /\ pc[i] = "routed"
    /\ Route(req[i].method, req[i].path) = "find-service"
    /\ LET p == AskQuestionPrepare(core, req[i].body)
       IN  IF p.err # nil
           THEN LET a == [err |-> p.err, resp |-> nil]
                    v == findServiceResult(a)
                IN  /\ ask' = [ask EXCEPT ![i].ret = Ptr(a)]
                    /\ sw' = [sw EXCEPT
                                ![i] = responseJSON(sw[i], StatusOK, v, TRUE)]
                    /\ resp' = [resp EXCEPT ![i] = Ptr(v)]
                    /\ pc' = [pc EXCEPT ![i] = "done"]
                    /\ UNCHANGED <<outCalls, core>>
           ELSE /\ ask' = [ask EXCEPT ![i].obj = p.obj,
                                      ![i].oRequest = p.oRequest,
                                      ![i].build = "ok"]
                /\ core' = [core EXCEPT
                              !.PromptManager.systemPrompt =
                                  Deref(p.oRequest).Messages[1].Content]
                /\ outCalls' = [outCalls EXCEPT ![i] = 1]
                /\ pc' = [pc EXCEPT ![i] = "calling"]
                /\ UNCHANGED <<sw, resp>>
    /\ UNCHANGED <<req, call>>

\* findServiceHandler of goroutine i until it answers or blocks in c.Do.
ConcFindServiceBegin(i) ==
    /\ pc[i] = "routed"
    /\ Route(req[i].method, req[i].path) = "find-service"
    /\ LET p == AskQuestionPrepare(core, req[i].body)
       IN  IF p.err # nil
           THEN LET a == [err |-> p.err, resp |-> nil]
                    v == findServiceResult(a)
                IN  /\ ask' = [ask EXCEPT ![i].ret = Ptr(a)]
                    /\ sw' = [sw EXCEPT
                                ![i] = responseJSON(sw[i], StatusOK, v, TRUE)]
                    /\ resp' = [resp EXCEPT ![i] = Ptr(v)]
                    /\ pc' = [pc EXCEPT ![i] = "done"]
                    /\ UNCHANGED outCalls
           ELSE /\ ask' = [ask EXCEPT ![i].obj = p.obj,
                                      ![i].oRequest = p.oRequest,
                                      ![i].build = "ok"]
                /\ outCalls' = [outCalls EXCEPT ![i] = 1]
                /\ pc' = [pc EXCEPT ![i] = "calling"]
                /\ UNCHANGED <<sw, resp>>
    /\ UNCHANGED <<req, core, call>>

\* c.Do of goroutine i returns; the handler runs to its end.
ConcChatCompletionReturn(i, o) ==
    /\ pc[i] = "calling"
    /\ LET cc == ChatCompletion(o)
           a == AskQuestionFinish(ask[i].obj, cc.data, cc.err)
           v == findServiceResult(a)
       IN  /\ ask' = [ask EXCEPT ![i].reply = Ptr(o), ![i].ret = Ptr(a)]
           /\ sw' = [sw EXCEPT ![i] = responseJSON(sw[i], StatusOK, v, TRUE)]
           /\ resp' = [resp EXCEPT ![i] = Ptr(v)]
    /\ pc' = [pc EXCEPT ![i] = "done"]
    /\ UNCHANGED <<req, outCalls, core, call>>

ConcClose(i) ==
    /\ pc[i] = "done"
    /\ pc' = [pc EXCEPT ![i] = "idle"]
    /\ req' = [req EXCEPT ![i] = NoRequest]
    /\ sw' = [sw EXCEPT ![i] = NewStatusOKWriter(NewResponseWriter)]
    /\ ask' = [ask EXCEPT ![i] = NoAsk]
    /\ resp' = [resp EXCEPT ![i] = nil]
    /\ outCalls' = [outCalls EXCEPT ![i] = 0]
    /\ UNCHANGED <<core, call>>

NextConc ==
    \/ \E i \in Slots, r \in ConcRequests : ConcAccept(i, r)
    \/ \E i \in Slots : ConcServeHealth(i)
    \/ \E i \in Slots : ConcFindServiceBegin(i)
    \/ \E i \in Slots, o \in ConcOutcomes : ConcChatCompletionReturn(i, o)
    \/ \E i \in Slots : ConcClose(i)

SpecConc == InitConc /\ [][NextConc]_vars

\* The response value and the written body of request r when it is the only
\* request the server ever handles and its outbound call is answered by o.
Alone(c, r, o) ==
    IF Route(r.method, r.path) = "health" THEN HealthResponse
    ELSE LET p == AskQuestionPrepare(c, r.body)
         IN  IF p.err # nil
             THEN findServiceResult([err |-> p.err, resp |-> nil])
             ELSE LET cc == ChatCompletion(Deref(o))
                  IN  findServiceResult(
                          AskQuestionFinish(p.obj, cc.data, cc.err))

AloneWriter(c, r, o) ==
    responseJSON(NewStatusOKWriter(NewResponseWriter), StatusOK,
                 Alone(c, r, o), TRUE)

\* C19: under every interleaving the Core stays as constructed (system
\* prompt, service registry, fallback service and model name), every
\* outbound request is the one rendered from the request's own body, and
\* every finished request has the response and the written bytes it has
\* when it runs alone with the same body and the same provider reply.
C19_RequestsAreIndependent ==
    /\ core = NewCore(GetModelName(core))
    /\ \A i \in Slots :
         /\ pc[i] = "calling" =>
              ask[i].oRequest =
                  AskQuestionPrepare(NewCore(GetModelName(core)),
                                     req[i].body).oRequest
         /\ pc[i] = "done" =>
              /\ resp[i] = Ptr(Alone(NewCore(GetModelName(core)), req[i],
                                     ask[i].reply))
              /\ sw[i] = AloneWriter(NewCore(GetModelName(core)), req[i],
                                     ask[i].reply)

\* Two requests were in flight together, one answered by the provider and
\* one cut off by the deadline, and each got its own answer.
C19_Witness ==
    /\ pc[1] = "done"
    /\ pc[2] = "done"
    /\ req[1].body.intent = WordCartao
    /\ req[2].body.intent = WordSeguro
    /\ ask[1].reply # nil
    /\ ask[2].reply # nil
    /\ Deref(ask[1].reply).status = StatusOK
    /\ Deref(ask[2].reply).do = "deadline"
    /\ Deref(resp[1]).Success = TRUE
    /\ Deref(resp[2]).Success = FALSE


(***************************************************************************)
(* One statusOKWriter under a sequence of WriteHeader calls; call.args is  *)
(* the sequence of codes passed so far.                                    *)
(***************************************************************************)
MaxCalls == 3

InitWriter ==
    /\ InitServer
    /\ core = NewCore(ModelGPT)
    /\ call = [op |-> "WriteHeader", args |-> <<>>, ret |-> nil]

CallWriteHeader(code) ==
    /\ Len(call.args) < MaxCalls
    /\ sw' = WriteHeader(sw, code)
    /\ call' = [call EXCEPT !.args = Append(@, code)]
    /\ UNCHANGED <<pc, req, ask, resp, outCalls, core>>

NextWriter == \E code \in StatusCodes : CallWriteHeader(code)

SpecWriter == InitWriter /\ [][NextWriter]_vars

\* C20: whatever codes WriteHeader has been called with, the wrapped writer
\* has received nothing before the first call and exactly one WriteHeader,
\* with 200, from the first call on; wroteHeader is true exactly from the
\* first call on; and a later call changes nothing of the writer.
C20_WriteHeaderOnce ==
    [][/\ ~sw.wroteHeader <=> call.args = <<>>
       /\ ~sw.wroteHeader => sw.ResponseWriter.codes = <<>>
       /\ sw'.wroteHeader
       /\ sw'.ResponseWriter.codes = <<StatusOK>>
       /\ sw.wroteHeader => sw' = sw
       /\ sw'.ResponseWriter.contentType = sw.ResponseWriter.contentType
       /\ sw'.ResponseWriter.body = sw.ResponseWriter.body]_vars

\* Three calls with 404, 500 and 201 left a single 200 on the wrapped writer.
C20_Witness ==
    /\ call.op = "WriteHeader"
    /\ call.args = <<StatusNotFound, 500, 201>>
    /\ sw.wroteHeader
    /\ sw.ResponseWriter.codes = <<StatusOK>>


\* The diagnostics of the response a finished find-service request carries.
ResponseDiagnostics == Deref(resp).Diagnostics

\* C21: the diagnostics of a find-service response are drawn from the
\* service_id, service_name and mismatch entries only; "request is nil",
\* "request.intent is empty" and "response data is nil" never appear.  An
\* empty intent ends the request before any outbound call, and whenever the
\* coherence check has run, its request is non-nil with a non-empty intent
\* and its data is non-nil.
C21_OnlyDataDiagnosticsEndToEnd ==
    Served("find-service") =>
        /\ \A i \in 1..Len(ResponseDiagnostics) :
             ResponseDiagnostics[i] \in
                 {DiagServiceID, DiagServiceName, DiagMismatch}
        /\ (req.readOK /\ ~UndecodableBody /\ req.body.intent = <<>>) =>
             /\ outCalls = 0
             /\ Deref(ask.ret).err = ErrEmptyIntent
             /\ ResponseDiagnostics = <<>>
        /\ (ask.ret # nil /\ Deref(ask.ret).err = nil) =>
             /\ ask.obj # nil
             /\ Deref(ask.obj).Intent # <<>>
             /\ Deref(resp).Data # nil
             /\ ResponseDiagnostics =
                  analyzeCoherence(ask.obj, Deref(resp).Data)

\* The provider returned id 0 with an insurance name for a card intent: the
\* two data diagnostics are reported and nothing else.
C21_Witness ==
    /\ Served("find-service")
    /\ req.body.intent = WordCartao
    /\ ResponseDiagnostics = <<DiagServiceID, DiagMismatch>>


\* The provider answered 200 with an envelope whose first choice is a JSON
\* object with an integer service_id.
ObjectReply ==
    /\ ProviderAnswered200
    /\ Len(Deref(ask.reply).choices) >= 1
    /\ Deref(ask.reply).choices[1].kind = "object"

FirstChoice == Deref(ask.reply).choices[1]

\* C22: a first choice with service_id 0 is answered with success=false,
\* data {0, the returned name}, the diagnostic "response.service_id must be
\* > 0" and no error; a service_id outside 0..255 is answered with the
\* "internal server error: " envelope of the inner decode and no data; and
\* the service_id of every response that carries data lies in 0..255.
C22_ZeroIDNeverSucceeds ==
    /\ (ObjectReply /\ FirstChoice.id = 0) =>
         /\ Deref(resp).Success = FALSE
         /\ Deref(resp).Data = Ptr([ServiceID |-> 0,
                                    ServiceName |-> FirstChoice.name])
         /\ Deref(resp).Diagnostics # <<>>
         /\ Head(Deref(resp).Diagnostics) = DiagServiceID
         /\ Deref(resp).Error = <<>>
    /\ (ObjectReply /\ FirstChoice.id \notin 0..MaxUint8) =>
         /\ Deref(resp).Success = FALSE
         /\ Deref(resp).Data = nil
         /\ Deref(resp).Diagnostics = <<>>
         /\ Len(Deref(resp).Error) >= 2
         /\ Head(Deref(resp).Error) = InternalErrorPrefix
         /\ Deref(resp).Error[2] = "error unmarshaling data response: "
    /\ (Served("find-service") /\ Deref(resp).Data # nil) =>
         Deref(Deref(resp).Data).ServiceID \in 0..MaxUint8

\* The provider named the card-unblocking service under id 0 and the
\* response carries that pair with success=false.
C22_Witness ==
    /\ ObjectReply
    /\ FirstChoice = Content("object", 0, NameDesbloqueio)
    /\ Deref(resp).Success = FALSE
    /\ Deref(resp).Diagnostics = <<DiagServiceID>>

====
